---- MODULE Spec2Model ----
(***************************************************************************)
(* Model of the streaming pipeline engine of npg_ranger                    *)
(* (lib/server/pipeline.js): N chained child processes, the per-process    *)
(* promises, the Promise.all join, the socket watchdog, the deferred       *)
(* wiring and the in-flight md5 of the last process' output.               *)
(*                                                                         *)
(* Child processes, the destination stream and its socket are the          *)
(* environment: they are modelled by the events the engine subscribes to   *)
(* ('close', 'error', 'data', 'end', socket 'close').                      *)
(*                                                                         *)
(* Around it, the request processor of lib/server/model.js: process()      *)
(* with its two paths _getFile and _mergeFiles, the argv of each stage,    *)
(* the temp directory of a multi-file request and the end callback.        *)
(* Spec and FairSpec follow one pipeline from pipeline(...).run() on;      *)
(* PlanSpec applies process() to every query of a bounded set.             *)
(***************************************************************************)
EXTENDS Integers, Sequences, FiniteSets, TLC

\* ------------------------------------------------------------------ bounds
MaxStages == 3   \* longest process array handed to pipeline()
MaxChunks == 2   \* most chunks the last process writes to its stdout
MaxFiles  == 2   \* longest query.files handed to process()
MaxCalls  == 2   \* most calls of process() with one and the same query object
MaxReqStages == 2  \* longest process array of each of two concurrent pipelines
MaxWrites == 2     \* most response.write() calls on one response

VARIABLES
  n,            \* processes.length
  hasSocket,    \* destination.socket instanceof net.Socket
  sinkFinished, \* destination.finished, as read by the nextTick callback
  pc,           \* "init" | "scheduled" | "wired" | "aborted"
  subscribed,   \* the socket 'close' listener is attached
  socket,       \* "open" | "closed_ok" | "closed_err"
  exitKind,     \* per process: "none" while it runs, else "ok" | "code" | "signal"
  closed,       \* per process: its 'close' event has been emitted
  killPending,  \* per process: a kill() reached the live process
  remaining,    \* chunks the last process still has to write to its stdout
  promise,      \* per process: "pending" | "resolved" | "rejected"
  kills,        \* every kill() the engine invoked: [cause, from, target]
  join,         \* Promise.all: "pending" | "fulfilled" | "rejected"
  result,       \* _result: [truncated, checksum]
  calls,        \* callbacks invoked so far, each with what it could observe
  hashed,       \* bytes fed to hash.update, in order
  hashDigest,   \* the cached digest, NULL until hash.digest() is called
  sinkBody,     \* bytes written to destination, in order
  piped,        \* the pipe last stdout -> destination is attached
  pipes,        \* the pipes stdout -> stdin between processes: <<from, to>>
  stdoutEnded,  \* the last process' stdout has emitted 'end'
  sinkEnded,    \* destination.end() has been called by the pipe
  multi,        \* the request took _mergeFiles (query.files.length is not 1)
  endCalls,     \* the arguments endResponseClback was invoked with, in order
  tmpDir,       \* _mergeFiles' dir: "none" | "exists" | "removing" | "removed" | "kept"
  query,        \* the caller's query object, as process() has left it
  outcomes,     \* one record per call of process(): what it was given and did
  reqs,         \* two concurrent pipelines: per pipeline() call, its processes
                \* and the state of its closure
  lastReq,      \* the pipeline whose process, socket or promise the last step was about
  response,     \* an http.ServerResponse, as the trailer module sees and changes it
  lastCall,     \* the last call of the trailer module: its arguments, the
                \* response it found and what it threw
  lastSet,      \* the arguments of the last setDataTruncation that returned
                \* before the response was ended
  url,          \* the client's <url> argument: the resource it names and,
                \* for a JSON resource, the uris listed in it
  acceptTrailers, \* the client's --accept-trailers option
  task,         \* per uri of the client's run: how far requestWorker has got
  output,       \* the payloads written to the client's output stream, in order
  outputEnded,  \* output.end() has been called
  exitCode,     \* "none" while the client runs, else the code of process.exit
  failed,       \* the uris whose task has called back with an error
  called,       \* per task: what its callback was invoked with, in order
                \* ("" for a call without an error)
  runArgs,      \* what pipeline(...) and run(...) are given, valid or not
  runState      \* what run() has done to its arguments, and what came of it

vars == <<n, hasSocket, sinkFinished, pc, subscribed, socket, exitKind, closed,
          killPending, remaining, promise, kills, join, result, calls, hashed,
          hashDigest, sinkBody, piped, pipes, stdoutEnded, sinkEnded, multi,
          endCalls, tmpDir, query, outcomes, reqs, lastReq,
          response, lastCall, lastSet, url, acceptTrailers, task, output,
          outputEnded, exitCode, failed, called, runArgs, runState>>

reqVars  == <<query, outcomes>>
isoVars  == <<reqs, lastReq>>
resVars  == <<response, lastCall, lastSet>>
cliVars  == <<url, acceptTrailers, task, output, outputEnded, exitCode, failed,
              called>>
runVars  == <<runArgs, runState>>
envVars  == <<n, hasSocket, sinkFinished, multi, reqVars, isoVars, resVars,
              cliVars, runVars>>
procVars == <<exitKind, closed, killPending, remaining>>
dataVars == <<hashed, hashDigest, sinkBody, piped, pipes, stdoutEnded, sinkEnded>>
joinVars == <<join, result, calls, endCalls, tmpDir>>
pipelineVars == <<n, hasSocket, sinkFinished, multi, pc, subscribed, socket,
                  procVars, promise, kills, joinVars, dataVars>>

\* ------------------------------------------------------------- md5 (crypto)
NULL == <<>>

HexDigits == <<"0","1","2","3","4","5","6","7","8","9","a","b","c","d","e","f">>

\* A small stand-in for the md5 compression: an order-sensitive fold over the
\* bytes, so that dropping, repeating or reordering bytes changes the value.
RECURSIVE Md5(_)
Md5(bytes) ==
  IF bytes = <<>> THEN 1
  ELSE (Md5(SubSeq(bytes, 1, Len(bytes) - 1)) * 31 + bytes[Len(bytes)]) % 256

\* hash.digest('hex')
Md5Hex(bytes) ==
  <<HexDigits[(Md5(bytes) \div 16) + 1], HexDigits[(Md5(bytes) % 16) + 1]>>

\* _getHashDigest: digest once, then return the cached value
GetHashDigest(cached, bytes) == IF cached = NULL THEN Md5Hex(bytes) ELSE cached

\* ------------------------------------------------------------------ helpers
Stages == 0 .. (n - 1)
Last   == n - 1

Running(i) == exitKind[i] = "none"

\* registerOutcomes: next = (next_index == array.length) ? null : array[next_index]
HasNext(i) == i + 1 # n
NextOf(i)  == i + 1

\* The k-th chunk the last process writes (distinct bytes, so order shows)
ChunkAt(k) == <<k>>

Started == pc \in {"wired", "aborted"}

KillRec(cause, from, target) == [cause |-> cause, from |-> from, target |-> target]

\* ChildProcess.kill(): signals a live process, a no-op once it has exited
ApplyKills(ks) ==
  [j \in Stages |-> killPending[j] \/ (Running(j) /\ \E k \in ks : k.target = j)]

\* A promise settles once: resolve/reject on a settled promise are no-ops
Settle(i, to) == IF promise[i] = "pending" THEN [promise EXCEPT ![i] = to] ELSE promise

\* ---------------------------------------------- engine: Promise.all(promises)
\* Mutant: the join is not one-shot, its handlers run on every settled promise
JoinPendingAlways == TRUE

\* Promise.all settles once
JoinPending == join = "pending"

\* Mutant: the join fulfils on the first resolved promise (Promise.race)
AllResolvedAny == \E i \in Stages : promise[i] = "resolved"

\* Promise.all fulfils when every promise has resolved
AllResolved == \A i \in Stages : promise[i] = "resolved"

\* Promise.all rejects as soon as one promise has rejected
SomeRejected == \E i \in Stages : promise[i] = "rejected"

\* A promise reaction is queued: it runs before the next event is handled
ReactionQueued == JoinPending /\ (AllResolved \/ SomeRejected)

\* ------------------------------------------- model.js: the two request paths
\* _getFile: [view], and freebayes after it when the format is VCF
GetFileStages == {1, 2}

\* _mergeFiles: [merge, markdup, view], and freebayes after them for VCF
MergeFilesStages == {3, 4}

\* process: files.length === 1 ? _getFile : _mergeFiles
StageCounts(m) == IF m THEN MergeFilesStages ELSE GetFileStages

\* _mergeFiles: fs.mkdirSync(dir), before the first spawn
MkDir(m) == IF m THEN "exists" ELSE "none"

\* Mutant: the callbacks of _mergeFiles do not call cleanup()
CleanupSkipped(m, d) == d

\* cleanup(): fse.remove(dir, callback), called by both callbacks of
\* _mergeFiles and by none of _getFile
Cleanup(m, d) == IF m THEN "removing" ELSE d

\* () => {endResponseClback(false); ...}
SuccessClbkArg == FALSE

\* () => {endResponseClback(true); ...}
FailureClbkArg == TRUE

\* ------------------------------------- http.ServerResponse (the environment)
\* A response before anything was done to it: no Trailer header, headers not
\* sent, chunked transfer encoding not ruled out
NoResponse ==
  [trailer |-> <<>>, teRemoved |-> FALSE, headersSent |-> FALSE,
   chunked |-> FALSE, body |-> 0, pending |-> <<>>, finished |-> FALSE,
   rawTrailers |-> <<>>]

\* Mutant: setHeader does not mind the headers having been sent
SetHeaderUnchecked(r, value) ==
  [thrown |-> "", response |-> [r EXCEPT !.trailer = value]]

\* response.setHeader('Trailer', value): throws once the headers are sent
SetHeader(r, value) ==
  IF r.headersSent
    THEN [thrown |-> "Can't set headers after they are sent.", response |-> r]
    ELSE [thrown |-> "", response |-> [r EXCEPT !.trailer = value]]

\* Mutant: removeHeader leaves the header where it is
RemoveHeaderKeeps(r) == [thrown |-> "", response |-> r]

\* response.removeHeader('Trailer'): throws once the headers are sent
RemoveHeader(r) ==
  IF r.headersSent
    THEN [thrown |-> "Can't remove headers after they are sent.", response |-> r]
    ELSE [thrown |-> "", response |-> [r EXCEPT !.trailer = <<>>]]

\* response.getHeader('Trailer'): undefined (here <<>>) when not set
GetHeader(r) == r.trailer

\* addTrailers' field + ': ' + value: the value as String(value) gives it, the
\* text null for null
HeaderText(v) == IF v.type = "null" THEN "null" ELSE v.s

\* response.addTrailers(header): the trailer block is rebuilt from the pairs
\* of this call and kept for end(); nothing is checked
AddTrailers(r, pairs) ==
  [r EXCEPT !.pending =
     <<pairs[1].name, HeaderText(pairs[1].value),
       pairs[2].name, HeaderText(pairs[2].value)>>]

\* The headers go out with the first write: chunked transfer encoding unless
\* the Transfer-Encoding header was removed
SendHeaders(r) ==
  IF r.headersSent THEN r
  ELSE [r EXCEPT !.headersSent = TRUE, !.chunked = ~r.teRemoved]

\* Mutant: end() sends the trailer block whatever the transfer encoding
EndSendsTrailersAlways(r) == TRUE

\* end(): the last chunk and the trailer block are sent if (chunkedEncoding)
EndSendsTrailers(r) == r.chunked

\* ---------------------------------------------------- the trailer module
TRAILER_HEADER_NAME     == "Trailer"
DATA_TRUNCATION_TRAILER == "data-truncated"
CHECKSUM_TRAILER        == "checksum"

\* [DATA_TRUNCATION_TRAILER, CHECKSUM_TRAILER].join(): the value of the header,
\* kept as the list of the names the commas separate
DeclaredTrailers == <<DATA_TRUNCATION_TRAILER, CHECKSUM_TRAILER>>

\* trailers && trailers.includes(DATA_TRUNCATION_TRAILER)
Includes(trailers, name) == \E k \in 1 .. Len(trailers) : trailers[k] = name

\* JavaScript values given as truncated and as checksum
Bool(b) == [type |-> "boolean", b |-> b]
Truncateds ==
  {Bool(TRUE), Bool(FALSE), [type |-> "number", b |-> FALSE],
   [type |-> "undefined", b |-> FALSE]}

Str(x) == [type |-> "string", s |-> x]
JsNull == [type |-> "null", s |-> ""]
Checksums ==
  {Str("5a1ca5a7"), JsNull, [type |-> "undefined", s |-> "undefined"],
   [type |-> "number", s |-> "4"]}

NoArgs == [truncated |-> [type |-> "undefined", b |-> FALSE],
           checksum |-> [type |-> "undefined", s |-> ""]]

\* truncated.toString()
BoolToString(b) == IF b THEN "true" ELSE "false"

\* Mutant: a checksum that is not a string is passed on as it is
ChecksumArgAsGiven(checksum) == checksum

\* if (typeof (checksum) !== 'string') { checksum = null; }
ChecksumArg(checksum) == IF checksum.type # "string" THEN JsNull ELSE checksum

\* validateResponse
ValidateResponse(given) ==
  IF ~given THEN "HTTP response object is required" ELSE ""

ErrorType(message) ==
  IF message \in {"HTTP response object is required",
                  "boolean flag indicating data truncation is required"}
    THEN "ReferenceError"
    ELSE IF message = "" THEN "" ELSE "Error"

Call(op, given, args, thrown) ==
  [op |-> op, given |-> given, args |-> args, thrown |-> thrown,
   found |-> response]

NoCall ==
  [op |-> "", given |-> FALSE, args |-> NoArgs, thrown |-> "",
   found |-> NoResponse]

\* ------------------------------------------------- model.js: the query
\* query.region: absent, one string, or an array of strings
NoRegion == [kind |-> "none", val |-> <<>>]

RegionNames == {"chr1", "chr2"}

Regions ==
  {NoRegion,
   [kind |-> "string", val |-> <<"chr1">>],
   [kind |-> "list", val |-> <<"chr1">>],
   [kind |-> "list", val |-> <<"chr1", "chr2">>]}

\* if (query.region): a non-empty string and every array are truthy
Truthy(region) == region.kind # "none"

\* String(region), as an element of an argv: an array is joined with commas
RegionArg(region) ==
  IF Len(region.val) = 1 THEN region.val[1] ELSE "chr1,chr2"

\* A file of query.files, named by its data_object
FileNames == {"a.bam", "b.bam", "c.cram"}

\* re_bam = /\.bam$/i, re_cram = /\.cram$/i
ReBam(f)  == f \in {"a.bam", "b.bam"}
ReCram(f) == f \in {"c.cram"}

\* supportedFormats(), and what else a caller may put in query.format: nothing
\* ("" stands for the absent field) or a string that is no format
SupportedFormats == {"BAM", "CRAM", "SAM", "VCF"}
Formats == SupportedFormats \cup {"", "FASTQ"}

FileLists == UNION {[1 .. k -> FileNames] : k \in 0 .. MaxFiles}

Queries ==
  [files : FileLists, format : Formats, region : Regions,
   reference : {"", "ref.fa"}, directory : {"", "/data"}]

\* No request yet
NoQuery ==
  [files |-> <<>>, format |-> "", region |-> NoRegion, reference |-> "",
   directory |-> ""]

\* ------------------------------------------ model.js: the argv of each stage
\* _stViewAttrs: -b for BAM and VCF, -C for CRAM, inside if (format)
FormatFlag(format) ==
  IF format # ""
    THEN IF format = "BAM" \/ format = "VCF" THEN <<"-b">>
         ELSE IF format = "CRAM" THEN <<"-C">> ELSE <<>>
    ELSE <<>>

\* _stViewAttrs: ['view', '-h', flag, query.files.shift() || "-"], then
\* concat(query.region); the shift takes the file out of the caller's query
StViewAttrs(q) ==
  [argv  |-> <<"view", "-h">> \o FormatFlag(q.format)
             \o <<IF q.files # <<>> THEN Head(q.files) ELSE "-">>
             \o (IF Truthy(q.region) THEN q.region.val ELSE <<>>),
   query |-> [q EXCEPT !.files = IF q.files # <<>> THEN Tail(q.files) ELSE <<>>]]

\* _stMergeAttrs: regions.map(r => attrs.push('-R', r))
RECURSIVE RegionFlags(_)
RegionFlags(rs) ==
  IF rs = <<>> THEN <<>> ELSE <<"-R", Head(rs)>> \o RegionFlags(Tail(rs))

\* _stMergeAttrs: some_bam && some_cram throws
Inconsistent(files) ==
  /\ \E k \in 1 .. Len(files) : ReBam(files[k])
  /\ \E k \in 1 .. Len(files) : ReCram(files[k])

\* _stMergeAttrs: ['merge', '-u', -R r ..., '-', files ...]
StMergeAttrs(q) ==
  [throws |-> Inconsistent(q.files),
   argv   |-> <<"merge", "-u">>
              \o (IF Truthy(q.region) THEN RegionFlags(q.region.val) ELSE <<>>)
              \o <<"-">> \o q.files]

\* _bbbMarkDupsAttrs; the path after tmpfile= is a fresh _tempFilePath()
BbbMarkDupsAttrs ==
  <<"level=0", "verbose=0", "resetdupflag=1", "tmpfile=", "M=/dev/null">>

\* _fbAttrs: throws without a reference; ['-c', '-f', reference], and
\* push('-r', query.region) if (query.region)
FbAttrs(q) ==
  [throws |-> q.reference = "",
   argv   |-> <<"-c", "-f", q.reference>>
              \o (IF Truthy(q.region) THEN <<"-r", RegionArg(q.region)>> ELSE <<>>)]

\* ------------------------------------------------- model.js: process(query)
\* child.spawn(command, argv, {cwd}), and the title given to the handle
Proc(title, cmd, argv, cwd) ==
  [title |-> title, cmd |-> cmd, argv |-> argv, cwd |-> cwd]

\* What one call did: the exception it threw ("" for none), the processes it
\* spawned, whether it made a temp directory and handed a pipeline to run(),
\* and the query object as it left it. process() itself never removes the
\* directory and never kills a process: cleanup() is called by the callbacks
\* given to pipeline() only, kill() by the pipeline only, and no statement of
\* _getFile or _mergeFiles is inside a try.
Outcome(raised, spawned, mkdir, ran, q) ==
  [raised |-> raised, spawned |-> spawned, mkdir |-> mkdir, ran |-> ran,
   query |-> q, removed |-> FALSE, killed |-> {}]

\* Mutant: freebayes is appended for every textual format
AppendsFreebayesTextual(q) == q.format \in {"SAM", "VCF"}

\* if (query.format === 'VCF')
AppendsFreebayes(q) == q.format = "VCF"

\* The tail shared by _getFile and _mergeFiles: freebayes for VCF, whose
\* _fbAttrs throws after the earlier processes were spawned, then
\* pipeline(processes, ...).run(destination)
WithFreebayes(spawned, mkdir, q) ==
  IF AppendsFreebayes(q)
    THEN IF FbAttrs(q).throws
           THEN Outcome("ReferenceError", spawned, mkdir, FALSE, q)
           ELSE Outcome("", Append(spawned,
                              Proc("freebayes", "freebayes", FbAttrs(q).argv, "")),
                        mkdir, TRUE, q)
    ELSE Outcome("", spawned, mkdir, TRUE, q)

\* _getFile
GetFile(q) ==
  LET view == StViewAttrs(q) IN
    WithFreebayes(<<Proc("samtools view", "samtools", view.argv, "")>>,
                  FALSE, view.query)

\* _mergeFiles: mkdirSync, _stMergeAttrs (which may throw), the spawns of merge
\* and markdup, delete query.region, delete query.directory, query.files = []
\* and the spawn of view
MergeFiles(q) ==
  LET merge   == StMergeAttrs(q)
      cleared == [q EXCEPT !.region = NoRegion, !.directory = "", !.files = <<>>]
      view    == StViewAttrs(cleared)
  IN IF merge.throws
       THEN Outcome("Error", <<>>, TRUE, FALSE, q)
       ELSE WithFreebayes(
              <<Proc("samtools merge", "samtools", merge.argv, "dir"),
                Proc("bamstreamingmarkduplicates", "bamstreamingmarkduplicates",
                     BbbMarkDupsAttrs, ""),
                Proc("samtools view (post-merge)", "samtools", view.argv, "")>>,
              TRUE, view.query)

\* process: the assertions, then _getFile for one file, else _mergeFiles
ProcessQuery(q) ==
  IF Len(q.files) = 0 THEN Outcome("AssertionError", <<>>, FALSE, FALSE, q)
  ELSE IF Len(q.files) = 1 THEN GetFile(q)
  ELSE MergeFiles(q)

\* ------------------------------------------------ client: what it is given
\* A resource is what a uri names. kind says what requestWorker meets there:
\*   "data"     a data: uri that uriUtils.procDataURI decodes
\*   "baddata"  a data: uri on which uriUtils.procDataURI throws
\*   "http"     a uri answered, if at all, with something that is not JSON
\*   "json"     a uri answered, if at all, with a JSON document listing uris
\* The payload of a "data" or "http" resource is named by its place in the
\* url's tree of uris, so that every payload is different from every other.
MaxUris == 2
MaxNested == 1

Resource(kind, uris) == [kind |-> kind, uris |-> uris]

UriLists(S, m) == UNION {[1 .. k -> S] : k \in 1 .. m}

PlainUris == {Resource(k, <<>>) : k \in {"data", "baddata", "http"}}

\* a uri of the document may name a JSON document itself ("recursive by
\* design")
JsonUris == {Resource("json", us) : us \in UriLists(PlainUris, MaxNested)}

Urls ==
  {Resource("http", <<>>)} \cup
  {Resource("json", us) : us \in UriLists(PlainUris \cup JsonUris, MaxUris)}

\* A task is named by its path: <<>> is the task of the url, <<k>> the task
\* of the k-th uri of its document, <<k, j>> the j-th uri of that one's.
RECURSIVE Paths(_)
Paths(u) ==
  {<<>>} \cup
  UNION {{<<k>> \o q : q \in Paths(u.uris[k])} : k \in 1 .. Len(u.uris)}

RECURSIVE At(_, _)
At(u, p) == IF p = <<>> THEN u ELSE At(u.uris[Head(p)], Tail(p))

NoUrl == Resource("none", <<>>)

NoClient ==
  /\ url = NoUrl
  /\ acceptTrailers = FALSE
  /\ task = <<>>
  /\ output = <<>>
  /\ outputEnded = FALSE
  /\ exitCode = "none"
  /\ failed = {}
  /\ called = <<>>

\* ------------------------------------- engine: what run() may be given
\* The values a caller can hand over, by what the checks of run() and
\* validateInput tell apart. A stage is "process" when it is a child process
\* with stdin, stdout and stderr, "emitter" when it is an EventEmitter
\* without these streams.
MaxProcs == 2

Destinations == {"undefined", "stream", "response"}
StageKinds == {"undefined", "object", "emitter", "process"}
ClbkKinds == {"undefined", "object", "function"}

ProcessLists ==
  {[type |-> "undefined", items |-> <<>>], [type |-> "object", items |-> <<>>]}
  \cup {[type |-> "array", items |-> ps] :
          ps \in UNION {[1 .. k -> StageKinds] : k \in 0 .. MaxProcs}}

RunArguments ==
  [destination : Destinations, processes : ProcessLists,
   onSuccessClbk : ClbkKinds, onFailureClbk : ClbkKinds]

\* module.exports = (processes, onSuccessClbk, onFailureClbk) => {...}: the
\* closure is made and the object returned, nothing is looked at. built is
\* what the construction threw, raised what run() threw ("" for nothing);
\* listeners are the stages that got their 'close' and 'error' listeners,
\* joined says that Promise.all(promises).then(...) was reached.
Pipeline(args) ==
  [built |-> "", ran |-> FALSE, raised |-> "", listeners |-> {},
   joined |-> FALSE, socketListener |-> FALSE, scheduled |-> FALSE,
   wired |-> FALSE, exits |-> {}, callbacks |-> <<>>]

NoRunArgs ==
  [destination |-> "undefined",
   processes |-> [type |-> "undefined", items |-> <<>>],
   onSuccessClbk |-> "undefined", onFailureClbk |-> "undefined"]

NoRun ==
  /\ runArgs = NoRunArgs
  /\ runState = Pipeline(NoRunArgs)

\* ------------------------------------------------------------------- Init
Init ==
  /\ n \in 1 .. MaxStages
  /\ multi \in {m \in BOOLEAN : n \in StageCounts(m)}
  /\ endCalls = <<>>
  /\ tmpDir = MkDir(multi)
  /\ query = NoQuery
  /\ outcomes = <<>>
  /\ reqs = <<>>
  /\ lastReq = ""
  /\ response = NoResponse
  /\ lastCall = NoCall
  /\ lastSet = NoArgs
  /\ NoClient
  /\ NoRun
  /\ hasSocket \in BOOLEAN
  /\ sinkFinished \in BOOLEAN
  /\ pc = "init"
  /\ subscribed = FALSE
  /\ socket = "open"
  /\ exitKind = [i \in Stages |-> "none"]
  /\ closed = [i \in Stages |-> FALSE]
  /\ killPending = [i \in Stages |-> FALSE]
  /\ remaining \in 0 .. MaxChunks
  /\ promise = [i \in Stages |-> "pending"]
  /\ kills = {}
  /\ join = "pending"
  /\ result = [truncated |-> FALSE, checksum |-> NULL]
  /\ calls = <<>>
  /\ hashed = <<>>
  /\ hashDigest = NULL
  /\ sinkBody = <<>>
  /\ piped = FALSE
  /\ pipes = {}
  /\ stdoutEnded = FALSE
  /\ sinkEnded = FALSE

\* -------------------------------------------------- engine: run(destination)
\* schedule: the socket 'close' listener is attached only when the destination
\* has a net.Socket; the failed assertion is swallowed by the empty catch
Subscribes(sock) == sock

\* run: validateInput(); registerOutcomes(); schedule(destination)
Run ==
  /\ pc = "init"
  /\ pc' = "scheduled"
  /\ subscribed' = Subscribes(hasSocket)
  /\ UNCHANGED <<envVars, socket, procVars, promise, kills, joinVars, dataVars>>

\* Mutant: the nextTick callback wires whatever the state of the destination
WireAbortsNever(finished) == FALSE

\* schedule, the process.nextTick callback: give up when the destination has
\* finished, else pipe the processes together and the last one to the
\* destination, with the 'data' and 'end' listeners of the checksum
WireAborts(finished) == finished

\* processes.forEach: current.stdout.pipe(array[index + 1].stdin) for each
\* process but the last one
StagePipes == {<<i, i + 1>> : i \in {j \in Stages : j < n - 1}}

Wire ==
  /\ pc = "scheduled"
  /\ IF WireAborts(sinkFinished)
       THEN /\ pc' = "aborted"
            /\ piped' = FALSE
            /\ pipes' = {}
       ELSE /\ pc' = "wired"
            /\ piped' = TRUE
            /\ pipes' = StagePipes
  /\ UNCHANGED <<envVars, subscribed, socket, procVars, promise, kills,
                 joinVars, hashed, hashDigest, sinkBody, stdoutEnded, sinkEnded>>

\* ------------------------------------------ engine: createPromise's handlers
\* Mutant: a failed process kills every process after it
KillsOnCloseAll(i, kind) ==
  IF kind # "ok" THEN {KillRec("close", i, j) : j \in {t \in Stages : t > i}} ELSE {}

\* 'close' handler: kill nextP when code || signal
KillsOnClose(i, kind) ==
  IF kind # "ok" /\ HasNext(i) THEN {KillRec("close", i, NextOf(i))} ELSE {}

\* 'close' handler: reject(code || signal), else resolve()
CloseSettles(i, kind) == Settle(i, IF kind = "ok" THEN "resolved" ELSE "rejected")

\* p.once('close', (code, signal) => ...), for a process that exited with `kind`
CloseHandler(i, kind) ==
  /\ closed' = [closed EXCEPT ![i] = TRUE]
  /\ promise' = CloseSettles(i, kind)
  /\ kills' = kills \cup KillsOnClose(i, kind)
  /\ killPending' = [ApplyKills(KillsOnClose(i, kind)) EXCEPT ![i] = FALSE]

ErrorSources == {"process", "stdin", "stdout"}

\* p.on('error'), p.stdin.on('error'), p.stdout.on('error'): reject(err).
\* An 'error' on a settled promise changes nothing and is left as a stutter.
ErrorEvent(i, src) ==
  /\ Started
  /\ ~ReactionQueued
  /\ src \in ErrorSources
  /\ promise[i] = "pending"
  /\ promise' = Settle(i, "rejected")
  /\ UNCHANGED <<envVars, pc, subscribed, socket, procVars, kills, joinVars,
                 dataVars>>

\* ------------------------------------------------ environment: the processes
\* A process reads its stdin to the end: the first one has none to wait for,
\* the others see EOF once wired to a predecessor that has exited
InputEOF(i) == IF i = 0 THEN TRUE ELSE <<i - 1, i>> \in pipes /\ ~Running(i - 1)

\* The last process has written all its output: a chunk is written only when
\* it is read, so a process whose stdout nobody reads does not get there
OutputDone(i) == IF i = Last THEN remaining = 0 ELSE TRUE

\* While the last stdout is consumed, its 'end' comes between the exit of the
\* process and its 'close'; every other 'close' follows the exit at once
EndsFirst(i) == i = Last /\ pc = "wired"

\* What makes a process exit: "ok" when its work is done and no kill() has
\* reached it, "signal" after a kill() or from outside, "code" when it fails
MayExit(i, kind) ==
  /\ Running(i)
  /\ kind = "ok" => (OutputDone(i) /\ InputEOF(i) /\ ~killPending[i])

\* A process exits and its 'close' event is handled
Close(i, kind) ==
  /\ Started
  /\ ~ReactionQueued
  /\ ~EndsFirst(i)
  /\ MayExit(i, kind)
  /\ exitKind' = [exitKind EXCEPT ![i] = kind]
  /\ CloseHandler(i, kind)
  /\ UNCHANGED <<envVars, pc, subscribed, socket, remaining, joinVars, dataVars>>

\* The last process exits while its stdout is consumed
TermExit(kind) ==
  /\ Started
  /\ EndsFirst(Last)
  /\ MayExit(Last, kind)
  /\ exitKind' = [exitKind EXCEPT ![Last] = kind]
  /\ killPending' = [killPending EXCEPT ![Last] = FALSE]
  /\ UNCHANGED <<envVars, pc, subscribed, socket, closed, remaining, promise,
                 kills, joinVars, dataVars>>

\* The 'close' event of the last process, after the 'end' of its stdout
TermClose ==
  /\ ~ReactionQueued
  /\ EndsFirst(Last)
  /\ ~Running(Last)
  /\ ~closed[Last]
  /\ stdoutEnded
  /\ CloseHandler(Last, exitKind[Last])
  /\ UNCHANGED <<envVars, pc, subscribed, socket, exitKind, remaining,
                 joinVars, dataVars>>

\* ------------------------------------------- engine: the last process' stdout
\* hash.update(chunk)
OnData(h, chunk) == h \o chunk

\* stdout.pipe(destination, {end: false}): the pipe writes the chunk while it is
\* attached
PipeWrite(body, chunk) == IF piped THEN body \o chunk ELSE body

\* Mutant: the pipe is made with the default options, which end the destination
PipeEndDefault == TRUE

\* {end: false}
PipeEnd == FALSE

\* 'data' on the last stdout: both listeners get the same chunk
TermData ==
  /\ pc = "wired"
  /\ ~ReactionQueued
  /\ Running(Last)
  /\ remaining > 0
  /\ LET chunk == ChunkAt(MaxChunks - remaining + 1) IN
       /\ hashed' = OnData(hashed, chunk)
       /\ sinkBody' = PipeWrite(sinkBody, chunk)
  /\ remaining' = remaining - 1
  /\ UNCHANGED <<envVars, pc, subscribed, socket, exitKind, closed,
                 killPending, promise, kills, joinVars, hashDigest, piped,
                 pipes, stdoutEnded, sinkEnded>>

\* 'end' on the last stdout: LOGGER.debug('md5: ' + _getHashDigest())
StdoutEnd ==
  /\ pc = "wired"
  /\ ~ReactionQueued
  /\ ~Running(Last)
  /\ ~stdoutEnded
  /\ stdoutEnded' = TRUE
  /\ hashDigest' = GetHashDigest(hashDigest, hashed)
  /\ sinkEnded' = (sinkEnded \/ (piped /\ PipeEnd))
  /\ UNCHANGED <<envVars, pc, subscribed, socket, procVars, promise, kills,
                 joinVars, hashed, sinkBody, piped, pipes>>

\* ------------------------------------------------ engine: the socket watchdog
\* Mutant: the handler ignores had_error
SocketCloseKillsAlways(had_error) ==
  IF subscribed THEN {KillRec("socket", 0, 0)} ELSE {}

\* socket.on('close', (had_error) => { if (had_error) processes[0].kill() })
SocketCloseKills(had_error) ==
  IF subscribed /\ had_error THEN {KillRec("socket", 0, 0)} ELSE {}

\* The response's socket closes; the response emits 'close' and the pipe into
\* it is detached, the 'data' listener of the checksum stays
TransportClose(had_error) ==
  /\ Started
  /\ ~ReactionQueued
  /\ hasSocket
  /\ socket = "open"
  /\ socket' = IF had_error THEN "closed_err" ELSE "closed_ok"
  /\ kills' = kills \cup SocketCloseKills(had_error)
  /\ killPending' = ApplyKills(SocketCloseKills(had_error))
  /\ piped' = FALSE
  /\ UNCHANGED <<envVars, pc, subscribed, exitKind, closed, remaining, promise,
                 joinVars, hashed, hashDigest, sinkBody, pipes, stdoutEnded,
                 sinkEnded>>

\* ------------------------------------- engine: the handlers of Promise.all
\* Mutant: the fulfilment handler does not store the checksum
SuccessResultNoChecksum(r, digest) == [r EXCEPT !.truncated = FALSE]

\* Mutant: the rejection handler does not mark the result as truncated
FailureResultUnset(r) == r

\* Mutant: the rejection handler publishes a digest next to the flag
FailureResultWithDigest(r) == [truncated |-> TRUE, checksum |-> Md5Hex(<<>>)]

\* _result.truncated = false; _result.checksum = _getHashDigest()
SuccessResult(r, digest) == [truncated |-> FALSE, checksum |-> digest]

\* _result.truncated = true
FailureResult(r) == [r EXCEPT !.truncated = TRUE]

Open == {i \in Stages : ~closed[i]}

\* What a callback can observe when it is invoked
CallRec(name, seen) == [name |-> name, seen |-> seen, open |-> Open]

\* the fulfilment handler: write the result, then onSuccessClbk(), which is
\* model.js' () => {endResponseClback(false); cleanup();}
JoinFulfilled ==
  /\ JoinPending
  /\ AllResolved
  /\ join' = "fulfilled"
  /\ hashDigest' = GetHashDigest(hashDigest, hashed)
  /\ result' = SuccessResult(result, hashDigest')
  /\ calls' = Append(calls, CallRec("success", result'))
  /\ endCalls' = Append(endCalls, SuccessClbkArg)
  /\ tmpDir' = Cleanup(multi, tmpDir)
  /\ UNCHANGED <<envVars, pc, subscribed, socket, procVars, promise, kills,
                 hashed, sinkBody, piped, pipes, stdoutEnded, sinkEnded>>

\* the rejection handler: write the result, then onFailureClbk(), which is
\* model.js' () => {endResponseClback(true); cleanup();}
JoinRejected ==
  /\ JoinPending
  /\ SomeRejected
  /\ join' = "rejected"
  /\ result' = FailureResult(result)
  /\ calls' = Append(calls, CallRec("failure", result'))
  /\ endCalls' = Append(endCalls, FailureClbkArg)
  /\ tmpDir' = Cleanup(multi, tmpDir)
  /\ UNCHANGED <<envVars, pc, subscribed, socket, procVars, promise, kills,
                 dataVars>>

\* -------------------------------------------- environment: the file system
\* fse.remove calls back, with an error when the removal failed: the error is
\* logged at warn level and the directory stays
RemoveDone(ok) ==
  /\ tmpDir = "removing"
  /\ tmpDir' = IF ok THEN "removed" ELSE "kept"
  /\ UNCHANGED <<envVars, pc, subscribed, socket, procVars, promise, kills,
                 dataVars, join, result, calls, endCalls>>

\* ------------------------------------------------------------ specification
ExitKinds == {"ok", "code", "signal"}

Next ==
  \/ Run
  \/ Wire
  \/ \E i \in Stages, kind \in ExitKinds : Close(i, kind)
  \/ \E kind \in ExitKinds : TermExit(kind)
  \/ TermData
  \/ StdoutEnd
  \/ TermClose
  \/ \E i \in Stages, src \in ErrorSources : ErrorEvent(i, src)
  \/ \E had_error \in BOOLEAN : TransportClose(had_error)
  \/ JoinFulfilled
  \/ JoinRejected
  \/ \E ok \in BOOLEAN : RemoveDone(ok)

Spec == Init /\ [][Next]_vars

\* The scheduler runs the nextTick callback and the promise reactions; a
\* process whose work is done exits, a signalled process dies, an exited
\* process gets its 'end' and 'close' events, and data flows while the pipe to
\* the destination is attached.  Failures, errors and the closing of the
\* socket are not bound to happen.  fse.remove always calls back.
Fairness ==
  /\ WF_vars(\E ok \in BOOLEAN : RemoveDone(ok))
  /\ WF_vars(Run)
  /\ WF_vars(Wire)
  /\ WF_vars(JoinFulfilled)
  /\ WF_vars(JoinRejected)
  /\ WF_vars(StdoutEnd)
  /\ WF_vars(TermClose)
  /\ WF_vars(TermData /\ piped)
  /\ WF_vars(TermExit("ok"))
  /\ WF_vars(killPending[Last] /\ TermExit("signal"))
  /\ \A i \in 0 .. (MaxStages - 1) :
       /\ WF_vars(i \in Stages /\ Close(i, "ok"))
       /\ WF_vars(i \in Stages /\ killPending[i] /\ Close(i, "signal"))

FairSpec == Spec /\ Fairness

\* ------------------------------------------- specification of process(query)
\* Before the first request: no process, no pipeline
NoPipeline ==
  /\ n = 0
  /\ hasSocket = FALSE
  /\ sinkFinished = FALSE
  /\ multi = FALSE
  /\ pc = "init"
  /\ subscribed = FALSE
  /\ socket = "open"
  /\ exitKind = <<>>
  /\ closed = <<>>
  /\ killPending = <<>>
  /\ remaining = 0
  /\ promise = <<>>
  /\ kills = {}
  /\ join = "pending"
  /\ result = [truncated |-> FALSE, checksum |-> NULL]
  /\ calls = <<>>
  /\ endCalls = <<>>
  /\ tmpDir = "none"
  /\ hashed = <<>>
  /\ hashDigest = NULL
  /\ sinkBody = <<>>
  /\ piped = FALSE
  /\ pipes = {}
  /\ stdoutEnded = FALSE
  /\ sinkEnded = FALSE

PlanInit ==
  /\ query \in Queries
  /\ outcomes = <<>>
  /\ reqs = <<>>
  /\ lastReq = ""
  /\ response = NoResponse
  /\ lastCall = NoCall
  /\ lastSet = NoArgs
  /\ NoClient
  /\ NoRun
  /\ NoPipeline

\* m.process(query, destination, endResponseClback), with the query object in
\* the state the calls before left it in
Process ==
  /\ Len(outcomes) < MaxCalls
  /\ LET o == ProcessQuery(query) IN
       /\ outcomes' = Append(outcomes, [given |-> query, did |-> o])
       /\ query' = o.query
  /\ UNCHANGED <<pipelineVars, cliVars, runVars, isoVars, resVars>>

PlanNext == Process

PlanSpec == PlanInit /\ [][PlanNext]_vars

\* ----------------------------------- specification of two concurrent pipelines
\* pipeline(processes, onSuccessClbk, onFailureClbk) is called once per
\* request.  Each call has its processes (exit, killed, output, socket are
\* theirs and the response's) and its closure (promise, join, result, hashed,
\* calls); a handler registered by one call works on the closure it was made in.
Reqs == {"A", "B"}

\* Mutant: processes, _result and hash are module-level, shared by all calls
ClosureShared(r) == "A"

\* module.exports = (processes, onSuccessClbk, onFailureClbk) => { let
\* _result = ...; const hash = ...; ... }: the state a handler of call r uses
Closure(r) == r

ReqInit(k, c) ==
  [n |-> k,
   exit |-> [i \in 0 .. (k - 1) |-> "none"],
   killed |-> {},
   socket |-> "open",
   output |-> c,
   promise |-> [i \in 0 .. (k - 1) |-> "pending"],
   join |-> "pending",
   result |-> [truncated |-> FALSE, checksum |-> NULL],
   hashed |-> <<>>,
   calls |-> <<>>]

ReqStages(r) == 0 .. (reqs[r].n - 1)

\* Promise.all of one closure has a reaction queued
ReqReaction(q) ==
  /\ q.join = "pending"
  /\ \/ \A i \in DOMAIN q.promise : q.promise[i] = "resolved"
     \/ \E i \in DOMAIN q.promise : q.promise[i] = "rejected"

NoReaction == \A r \in Reqs : ~ReqReaction(reqs[r])

\* resolve / reject in the closure c, for its i-th promise
ReqSettle(rs, c, i, to) ==
  IF i \in DOMAIN rs[c].promise /\ rs[c].promise[i] = "pending"
    THEN [rs EXCEPT ![c].promise[i] = to]
    ELSE rs

\* kill() on the i-th process of the array the closure c holds
ReqKill(rs, c, i) ==
  IF i \in DOMAIN rs[c].exit /\ rs[c].exit[i] = "none"
    THEN [rs EXCEPT ![c].killed = @ \cup {i}]
    ELSE rs

\* The i-th process of call r exits and its 'close' handler runs: reject and
\* kill nextP when code || signal, else resolve
ReqClose(r, i, kind) ==
  /\ NoReaction
  /\ reqs[r].exit[i] = "none"
  /\ kind = "ok" =>
       /\ i \notin reqs[r].killed
       /\ i = reqs[r].n - 1 => ~reqs[r].output
       /\ IF i = 0 THEN TRUE ELSE reqs[r].exit[i - 1] # "none"
  /\ LET exited == [reqs EXCEPT ![r].exit[i] = kind, ![r].killed = @ \ {i}]
         settled == ReqSettle(exited, Closure(r), i,
                              IF kind = "ok" THEN "resolved" ELSE "rejected")
     IN reqs' = IF kind # "ok" THEN ReqKill(settled, Closure(r), i + 1)
                ELSE settled
  /\ lastReq' = r
  /\ UNCHANGED <<pipelineVars, cliVars, runVars, reqVars, resVars>>

\* 'error' on the i-th process of call r, its stdin or its stdout: reject
ReqError(r, i) ==
  /\ NoReaction
  /\ reqs[Closure(r)].promise[i] = "pending"
  /\ reqs' = ReqSettle(reqs, Closure(r), i, "rejected")
  /\ lastReq' = r
  /\ UNCHANGED <<pipelineVars, cliVars, runVars, reqVars, resVars>>

\* The socket of the response of call r closes: if (had_error) processes[0].kill()
ReqSocketClose(r, had_error) ==
  /\ NoReaction
  /\ reqs[r].socket = "open"
  /\ LET shut == [reqs EXCEPT ![r].socket = "closed"]
     IN reqs' = IF had_error THEN ReqKill(shut, Closure(r), 0) ELSE shut
  /\ lastReq' = r
  /\ UNCHANGED <<pipelineVars, cliVars, runVars, reqVars, resVars>>

\* 'data' on the last stdout of call r, which has one chunk to write or
\* none: hash.update(chunk)
ReqData(r) ==
  /\ NoReaction
  /\ reqs[r].exit[reqs[r].n - 1] = "none"
  /\ reqs[r].output
  /\ reqs' = [[reqs EXCEPT ![r].output = FALSE]
                 EXCEPT ![Closure(r)].hashed = OnData(@, ChunkAt(Len(@) + 1))]
  /\ lastReq' = r
  /\ UNCHANGED <<pipelineVars, cliVars, runVars, reqVars, resVars>>

\* The handlers of Promise.all of call r: write _result, call the callback
ReqJoin(r) ==
  /\ ReqReaction(reqs[r])
  /\ LET c == Closure(r)
         ok == \A i \in ReqStages(r) : reqs[r].promise[i] = "resolved"
         settled == [reqs EXCEPT ![r].join = IF ok THEN "fulfilled" ELSE "rejected"]
     IN reqs' =
          IF ok
            THEN [settled EXCEPT
                    ![c].result = SuccessResult(@, Md5Hex(settled[c].hashed)),
                    ![r].calls = Append(@, "success")]
            ELSE [settled EXCEPT
                    ![c].result = FailureResult(@),
                    ![r].calls = Append(@, "failure")]
  /\ lastReq' = r
  /\ UNCHANGED <<pipelineVars, cliVars, runVars, reqVars, resVars>>

\* The 'close' handler tells two cases apart, code || signal or neither: a
\* failed exit is by signal here, a nonzero code being handled the same
ReqExitKinds == {"ok", "signal"}

IsoInit ==
  /\ reqs \in [Reqs -> {ReqInit(k, c) : k \in 1 .. MaxReqStages,
                                        c \in BOOLEAN}]
  /\ lastReq = ""
  /\ query = NoQuery
  /\ outcomes = <<>>
  /\ response = NoResponse
  /\ lastCall = NoCall
  /\ lastSet = NoArgs
  /\ NoClient
  /\ NoRun
  /\ NoPipeline

IsoNext ==
  \E r \in Reqs :
    \/ \E i \in ReqStages(r), kind \in ReqExitKinds : ReqClose(r, i, kind)
    \/ \E i \in ReqStages(r) : ReqError(r, i)
    \/ \E had_error \in BOOLEAN : ReqSocketClose(r, had_error)
    \/ ReqData(r)
    \/ ReqJoin(r)

IsoSpec == IsoInit /\ [][IsoNext]_vars

\* ---------------------------------------- specification of the trailer module
\* exports.declare
Declare(given) ==
  /\ LET set == SetHeader(response, DeclaredTrailers) IN
       IF ValidateResponse(given) # ""
         THEN /\ lastCall' = Call("declare", given, NoArgs, ValidateResponse(given))
              /\ response' = response
         ELSE /\ lastCall' = Call("declare", given, NoArgs, set.thrown)
              /\ response' = set.response
  /\ UNCHANGED <<pipelineVars, cliVars, runVars, reqVars, isoVars, lastSet>>

\* exports.removeDeclaration
RemoveDeclaration(given) ==
  /\ LET removed == RemoveHeader(response) IN
       IF ValidateResponse(given) # ""
         THEN /\ lastCall' = Call("removeDeclaration", given, NoArgs,
                                  ValidateResponse(given))
              /\ response' = response
         ELSE /\ lastCall' = Call("removeDeclaration", given, NoArgs,
                                  removed.thrown)
              /\ response' = removed.response
  /\ UNCHANGED <<pipelineVars, cliVars, runVars, reqVars, isoVars, lastSet>>

\* Mutant: the declaration is looked up before the flag is checked
SetDataTruncationThrowsHeaderFirst(given, truncated) ==
  IF ValidateResponse(given) # "" THEN ValidateResponse(given)
  ELSE IF ~Includes(GetHeader(response), DATA_TRUNCATION_TRAILER)
    THEN "Cannot set data truncation trailer because it has not been declared"
  ELSE IF truncated.type # "boolean"
    THEN "boolean flag indicating data truncation is required"
  ELSE ""

\* exports.setDataTruncation: the three checks in the order of the code, then
\* addTrailers with the two pairs
SetDataTruncationThrows(given, truncated) ==
  IF ValidateResponse(given) # "" THEN ValidateResponse(given)
  ELSE IF truncated.type # "boolean"
    THEN "boolean flag indicating data truncation is required"
  ELSE IF ~Includes(GetHeader(response), DATA_TRUNCATION_TRAILER)
    THEN "Cannot set data truncation trailer because it has not been declared"
  ELSE ""

SetDataTruncation(given, truncated, checksum) ==
  /\ LET args   == [truncated |-> truncated, checksum |-> checksum]
         thrown == SetDataTruncationThrows(given, truncated)
     IN /\ lastCall' = Call("setDataTruncation", given, args, thrown)
        /\ response' =
             IF thrown = ""
               THEN AddTrailers(response,
                      <<[name |-> DATA_TRUNCATION_TRAILER,
                         value |-> Str(BoolToString(truncated.b))],
                        [name |-> CHECKSUM_TRAILER,
                         value |-> ChecksumArg(checksum)]>>)
               ELSE response
        /\ lastSet' = IF thrown = "" /\ ~response.finished THEN args ELSE lastSet
  /\ UNCHANGED <<pipelineVars, cliVars, runVars, reqVars, isoVars>>

\* response.removeHeader('Transfer-Encoding'), before the headers are sent
RemoveTransferEncoding ==
  /\ ~response.headersSent
  /\ ~response.teRemoved
  /\ response' = [response EXCEPT !.teRemoved = TRUE]
  /\ lastCall' = NoCall
  /\ UNCHANGED <<pipelineVars, cliVars, runVars, reqVars, isoVars, lastSet>>

\* response.write(chunk)
Write ==
  /\ ~response.finished
  /\ response.body < MaxWrites
  /\ response' = [SendHeaders(response) EXCEPT !.body = @ + 1]
  /\ lastCall' = NoCall
  /\ UNCHANGED <<pipelineVars, cliVars, runVars, reqVars, isoVars, lastSet>>

\* response.end().  With no write before it the headers go out now, and
\* whether a response without a body is chunked depends on the version of
\* node: both outcomes when a Trailer header is set, not chunked otherwise
End(chunkedNow) ==
  /\ ~response.finished
  /\ IF response.headersSent THEN chunkedNow = response.chunked
     ELSE chunkedNow => (response.trailer # <<>> /\ ~response.teRemoved)
  /\ LET sent == [response EXCEPT !.headersSent = TRUE, !.chunked = chunkedNow]
     IN response' =
          [sent EXCEPT !.finished = TRUE,
                       !.rawTrailers = IF EndSendsTrailers(sent)
                                         THEN sent.pending ELSE <<>>]
  /\ lastCall' = NoCall
  /\ UNCHANGED <<pipelineVars, cliVars, runVars, reqVars, isoVars, lastSet>>

TrailerInit ==
  /\ response = NoResponse
  /\ lastCall = NoCall
  /\ lastSet = NoArgs
  /\ NoClient
  /\ NoRun
  /\ reqs = <<>>
  /\ lastReq = ""
  /\ query = NoQuery
  /\ outcomes = <<>>
  /\ NoPipeline

TrailerNext ==
  \/ \E given \in BOOLEAN : Declare(given)
  \/ \E given \in BOOLEAN : RemoveDeclaration(given)
  \/ \E given \in BOOLEAN, truncated \in Truncateds, checksum \in Checksums :
       SetDataTruncation(given, truncated, checksum)
  \/ RemoveTransferEncoding
  \/ Write
  \/ \E chunkedNow \in BOOLEAN : End(chunkedNow)

TrailerSpec == TrailerInit /\ [][TrailerNext]_vars

\* ================================================================== client
srvVars == <<pipelineVars, reqVars, isoVars, resVars, runVars>>

\* asyncModule.queue( requestWorker, 1 )
QueueConcurrency == 1

StatusCodes == {200, 206, 404}

Parent(p) == SubSeq(p, 1, Len(p) - 1)

\* the tasks pushed to the same queue as p
Siblings(p) == {q \in DOMAIN task : Len(q) = Len(p) /\ Parent(q) = Parent(p)}

InProgress(t, q) == t[q] \notin {"queued", "done"}

Written(p) == \E k \in 1 .. Len(output) : output[k] = p

\* The task of the url is started by the nextTick callback. A task pushed to
\* a queue is started once the queue exists, the tasks pushed before it have
\* been taken, and fewer workers than the concurrency are running.
Startable(p) ==
  /\ task[p] = "queued"
  /\ p # <<>> =>
       /\ task[Parent(p)] = "delegated"
       /\ \A q \in Siblings(p) : q[Len(q)] < p[Len(p)] => task[q] # "queued"
       /\ Cardinality({q \in Siblings(p) : InProgress(task, q)})
            < QueueConcurrency

\* The part of the client's state a callback changes
Client ==
  [task |-> task, called |-> called, outputEnded |-> outputEnded,
   exitCode |-> exitCode, failed |-> failed]

Apply(c) ==
  /\ task' = c.task
  /\ called' = c.called
  /\ outputEnded' = c.outputEnded
  /\ exitCode' = c.exitCode
  /\ failed' = c.failed

\* Mutant: exitWithError logs the message and returns
ExitWithErrorReturns(message, code) == code

\* exitWithError: LOGGER.error( message ); process.exit( 1 )
ExitWithError(message, code) == "1"

\* callback() of task p. For the url it is the main callback: output.end().
\* For a pushed task it is the queue's: once no task of the queue is left,
\* q.drain does output.end() and resolve(), and queuePromise.then(callback)
\* calls the callback of the task the queue was made for.
RECURSIVE Callback(_, _)
Callback(c, p) ==
  LET c1 == [c EXCEPT !.task[p] = "done", !.called[p] = Append(@, "")] IN
  IF p = <<>> THEN [c1 EXCEPT !.outputEnded = TRUE]
  ELSE IF \A q \in Siblings(p) : c1.task[q] = "done"
       THEN Callback([c1 EXCEPT !.outputEnded = TRUE], Parent(p))
       ELSE c1

\* callback( err ) of task p: a pushed task's callback hands err to the
\* callback of the task the queue was made for, the main callback hands it to
\* exitWithError
RECURSIVE CallbackError(_, _, _)
CallbackError(c, p, err) ==
  LET c1 == [c EXCEPT !.called[p] = Append(@, err)] IN
  IF p = <<>> THEN [c1 EXCEPT !.exitCode = ExitWithError(err, @)]
  ELSE CallbackError(c1, Parent(p), err)

Succeed(p) == Apply(Callback(Client, p))

\* the task ends with callback( err )
Failing(c, p, err) ==
  CallbackError([c EXCEPT !.task[p] = "failed", !.failed = @ \cup {p}], p, err)

Fail(p, err) ==
  /\ Apply(Failing(Client, p, err))
  /\ UNCHANGED output

\* the 'end' listener of a data response: callback('Incomplete or truncated
\* data') when the trailer marks the data as truncated, and then, with no
\* return or else in between, callback()
EndOfData(p, marked) ==
  IF marked
    THEN IF Failing(Client, p, "Incomplete or truncated data").exitCode # "none"
           THEN Failing(Client, p, "Incomplete or truncated data")
           ELSE Callback(Failing(Client, p, "Incomplete or truncated data"), p)
    ELSE Callback(Client, p)

\* a write to the output after output.end(): output.on('error') is
\* exitWithError
WriteAfterEnd ==
  /\ exitCode' = ExitWithError("write after end", exitCode)
  /\ UNCHANGED <<task, output, outputEnded, failed, called>>

OutputWrite(p) == output' = Append(output, p)

RequestWorker(p) ==
  /\ exitCode = "none"
  /\ Startable(p)
  /\ IF At(url, p).kind = "data"
     THEN IF outputEnded THEN WriteAfterEnd
          ELSE OutputWrite(p) /\ Succeed(p)
     ELSE IF At(url, p).kind = "baddata" THEN Fail(p, "bad data uri")
     ELSE /\ task' = [task EXCEPT ![p] = "requested"]
          /\ UNCHANGED <<output, outputEnded, exitCode, failed, called>>
  /\ UNCHANGED <<url, acceptTrailers, srvVars>>

\* req.on('error'), before a response has come
RequestError(p) ==
  /\ exitCode = "none"
  /\ task[p] = "requested"
  /\ Fail(p, "request error")
  /\ UNCHANGED <<url, acceptTrailers, srvVars>>

\* req.on('response')
Response(p, statusCode) ==
  /\ exitCode = "none"
  /\ task[p] = "requested"
  /\ IF statusCode = 200 \/ statusCode = 206
     THEN /\ task' = [task EXCEPT ![p] = "receiving"]
          /\ UNCHANGED <<output, outputEnded, exitCode, failed, called>>
     ELSE Fail(p, "Non 200 status")
  /\ UNCHANGED <<url, acceptTrailers, srvVars>>

\* res.on('error')
ResponseError(p) ==
  /\ exitCode = "none"
  /\ task[p] = "receiving"
  /\ Fail(p, "response error")
  /\ UNCHANGED <<url, acceptTrailers, srvVars>>

\* res.pipe(output, { end: false }): the body reaches the output
ResponseData(p) ==
  /\ exitCode = "none"
  /\ task[p] = "receiving"
  /\ At(url, p).kind = "http"
  /\ ~Written(p)
  /\ IF outputEnded THEN WriteAfterEnd
     ELSE /\ OutputWrite(p)
          /\ UNCHANGED <<task, outputEnded, exitCode, failed, called>>
  /\ UNCHANGED <<url, acceptTrailers, srvVars>>

\* res.on('end'). truncated is what trailer.isDataTruncated finds.
ResponseEnd(p, truncated) ==
  /\ exitCode = "none"
  /\ task[p] = "receiving"
  /\ IF At(url, p).kind = "json"
     THEN /\ ~truncated
          /\ task' = [task EXCEPT ![p] = "delegated"]
          /\ UNCHANGED <<output, outputEnded, exitCode, failed, called>>
     ELSE /\ Written(p)
          /\ Apply(EndOfData(p, acceptTrailers /\ truncated))
          /\ UNCHANGED output
  /\ UNCHANGED <<url, acceptTrailers, srvVars>>

\* the output has ended and is flushed: process.exit(0)
OutputEnd ==
  /\ exitCode = "none"
  /\ outputEnded
  /\ exitCode' = "0"
  /\ UNCHANGED <<url, acceptTrailers, task, output, outputEnded, failed,
                 called, srvVars>>

ClientInit ==
  /\ url \in Urls
  /\ acceptTrailers \in BOOLEAN
  /\ task = [p \in Paths(url) |-> "queued"]
  /\ output = <<>>
  /\ outputEnded = FALSE
  /\ exitCode = "none"
  /\ failed = {}
  /\ called = [p \in Paths(url) |-> <<>>]
  /\ NoRun
  /\ response = NoResponse
  /\ lastCall = NoCall
  /\ lastSet = NoArgs
  /\ reqs = <<>>
  /\ lastReq = ""
  /\ query = NoQuery
  /\ outcomes = <<>>
  /\ NoPipeline

ClientNext ==
  \/ \E p \in DOMAIN task : RequestWorker(p)
  \/ \E p \in DOMAIN task : RequestError(p)
  \/ \E p \in DOMAIN task, statusCode \in StatusCodes : Response(p, statusCode)
  \/ \E p \in DOMAIN task : ResponseError(p)
  \/ \E p \in DOMAIN task : ResponseData(p)
  \/ \E p \in DOMAIN task, truncated \in BOOLEAN : ResponseEnd(p, truncated)
  \/ OutputEnd

ClientSpec == ClientInit /\ [][ClientNext]_vars

\* ======================================================= engine: run(), checked
nonRunVars == <<pipelineVars, reqVars, isoVars, resVars, cliVars>>

\* processes.forEach: the first element that is falsy or not an EventEmitter
RECURSIVE StageError(_, _)
StageError(items, k) ==
  IF k > Len(items) THEN ""
  ELSE IF items[k] = "undefined" THEN "ReferenceError"
  ELSE IF items[k] = "object" THEN "TypeError"
  ELSE StageError(items, k + 1)

ClbkError(clbk) ==
  IF clbk = "undefined" THEN "ReferenceError"
  ELSE IF clbk # "function" THEN "TypeError"
  ELSE ""

\* validateInput: the exception it throws, "" for none
ValidateInput(args) ==
  IF args.processes.type = "undefined" THEN "ReferenceError"
  ELSE IF args.processes.type # "array" THEN "TypeError"
  ELSE IF Len(args.processes.items) = 0 THEN "RangeError"
  ELSE IF StageError(args.processes.items, 1) # ""
    THEN StageError(args.processes.items, 1)
  ELSE IF ClbkError(args.onSuccessClbk) # "" THEN ClbkError(args.onSuccessClbk)
  ELSE ClbkError(args.onFailureClbk)

\* registerOutcomes: processes.map(createPromise) puts the 'close' and 'error'
\* listeners on every stage (p.stdin.on of a stage without stdin throws inside
\* the promise executor, which rejects that promise); promises.forEach then
\* reads processes[i].stderr.on, which throws a TypeError for a stage without
\* stderr, before Promise.all is reached
RegisterOutcomes(items) ==
  [listeners |-> 1 .. Len(items),
   raised |-> IF \E k \in 1 .. Len(items) : items[k] = "emitter"
                THEN "TypeError" ELSE ""]

\* run: (destination) => {...}
RunOutcome(args, st) ==
  IF args.destination = "undefined"
    THEN [st EXCEPT !.ran = TRUE, !.raised = "ReferenceError"]
  ELSE IF ValidateInput(args) # ""
    THEN [st EXCEPT !.ran = TRUE, !.raised = ValidateInput(args)]
  ELSE IF RegisterOutcomes(args.processes.items).raised # ""
    THEN [st EXCEPT !.ran = TRUE,
                    !.raised = RegisterOutcomes(args.processes.items).raised,
                    !.listeners = RegisterOutcomes(args.processes.items).listeners]
  ELSE [st EXCEPT !.ran = TRUE,
                  !.listeners = RegisterOutcomes(args.processes.items).listeners,
                  !.joined = TRUE,
                  !.socketListener = Subscribes(args.destination = "response"),
                  !.scheduled = TRUE]

RunCall ==
  /\ ~runState.ran
  /\ runState' = RunOutcome(runArgs, runState)
  /\ UNCHANGED <<runArgs, nonRunVars>>

\* the process.nextTick callback of schedule
RunTick ==
  /\ runState.scheduled
  /\ ~runState.wired
  /\ runState' = [runState EXCEPT !.wired = TRUE]
  /\ UNCHANGED <<runArgs, nonRunVars>>

Exited(st) == {e.stage : e \in st.exits}

\* Promise.all over the stages' promises: onFailureClbk on the first
\* rejection, onSuccessClbk once every stage was heard to close cleanly
Settled(st, len) ==
  IF ~st.joined \/ st.callbacks # <<>> THEN st.callbacks
  ELSE IF \E e \in st.exits : e.heard /\ e.kind # "ok" THEN <<"failure">>
  ELSE IF \A k \in 1 .. len : \E e \in st.exits : e.stage = k /\ e.heard
    THEN <<"success">>
  ELSE st.callbacks

\* a stage emits 'close', before or after run(); only a stage with a
\* listener is heard
StageClose(i, kind) ==
  /\ i \in 1 .. Len(runArgs.processes.items)
  /\ runArgs.processes.items[i] \in {"emitter", "process"}
  /\ i \notin Exited(runState)
  /\ LET st == [runState EXCEPT !.exits = @ \cup
                  {[stage |-> i, kind |-> kind, heard |-> i \in runState.listeners]}]
     IN runState' = [st EXCEPT !.callbacks =
                       Settled(st, Len(runArgs.processes.items))]
  /\ UNCHANGED <<runArgs, nonRunVars>>

RunInit ==
  /\ runArgs \in RunArguments
  /\ runState = Pipeline(runArgs)
  /\ NoClient
  /\ response = NoResponse
  /\ lastCall = NoCall
  /\ lastSet = NoArgs
  /\ reqs = <<>>
  /\ lastReq = ""
  /\ query = NoQuery
  /\ outcomes = <<>>
  /\ NoPipeline

RunNext ==
  \/ RunCall
  \/ RunTick
  \/ \E i \in 1 .. MaxProcs, kind \in {"ok", "code"} : StageClose(i, kind)

RunSpec == RunInit /\ [][RunNext]_vars

\* ====================================================================== claims
Calls == {calls[k] : k \in 1 .. Len(calls)}

SuccessCalls == {c \in Calls : c.name = "success"}
FailureCalls == {c \in Calls : c.name = "failure"}

Killed(j) == \E k \in kills : k.target = j

\* C1: over every interleaving of stage events, onSuccess and onFailure are
\* never both invoked and the two callbacks are invoked at most once in total.
C1_AtMostOneCallback ==
  /\ Len(calls) <= 1
  /\ ~(SuccessCalls # {} /\ FailureCalls # {})

\* C1 witness: the failure callback has run once although two stages were
\* rejected and a kill reached a stage that is already closed.
C1_Witness ==
  /\ Len(calls) = 1
  /\ Cardinality({i \in Stages : promise[i] = "rejected"}) >= 2
  /\ \E k \in kills : closed[k.target] /\ exitKind[k.target] = "ok"

\* C2: every request eventually has one of onSuccess / onFailure invoked, on
\* every termination path.
C2_EventuallyCallback == <>(Len(calls) >= 1)

\* C3: when every stage closes with code 0 and no error event rejects a stage,
\* result is {truncated: false, checksum: hex md5 of the hashed bytes} and
\* onSuccess, invoked once, already sees that result.
C3_SuccessPublishesDigest ==
  ((\A i \in Stages : closed[i] /\ exitKind[i] = "ok") /\ AllResolved /\ ~ReactionQueued)
    => /\ result = [truncated |-> FALSE, checksum |-> Md5Hex(hashed)]
       /\ result.checksum # NULL
       /\ calls = <<[name |-> "success", seen |-> result, open |-> {}]>>

\* C3 witness: a pipeline of several stages has succeeded after data went
\* through the checksum.
C3_Witness ==
  /\ n >= 2
  /\ hashed # <<>>
  /\ \A i \in Stages : closed[i] /\ exitKind[i] = "ok"
  /\ SuccessCalls # {}

\* C4: when a stage future has rejected, result is {truncated: true,
\* checksum: null} and onFailure, invoked once, already sees that result, also
\* when the last stdout has ended and its bytes were hashed and digested.
C4_FailurePublishesTruncated ==
  (SomeRejected /\ ~ReactionQueued)
    => /\ result = [truncated |-> TRUE, checksum |-> NULL]
       /\ Len(calls) = 1
       /\ calls[1].name = "failure"
       /\ calls[1].seen = result

\* C4 witness: onFailure ran after every stage had closed, the last stdout had
\* ended and the digest of the hashed bytes had been computed.
C4_Witness ==
  /\ FailureCalls # {}
  /\ \A c \in FailureCalls : c.open = {}
  /\ pc = "wired"
  /\ stdoutEnded
  /\ hashed # <<>>
  /\ hashDigest # NULL

\* C5: on every successful run the published checksum is the md5 of exactly
\* the bytes written to the destination.
C5_ChecksumIsMd5OfSinkBody ==
  \A c \in SuccessCalls : c.seen.checksum = Md5Hex(sinkBody)

\* C6 (as claimed): whichever callback fires, it fires only after every stage
\* has closed.
C6_CallbackAfterAllClosed == \A c \in Calls : c.open = {}

\* C6 (amended): onSuccess fires only after every stage has closed; onFailure
\* fires once a stage future has rejected, other stages may still be running.
C6_SuccessAfterAllClosed ==
  /\ \A c \in SuccessCalls : c.open = {}
  /\ FailureCalls # {} => SomeRejected

\* C6 witness: onSuccess has run for a pipeline of several stages.
C6_Witness == n >= 2 /\ SuccessCalls # {} /\ \A i \in Stages : closed[i]

\* C7: whenever the future of stage i rejects and stage i+1 exists, kill() is
\* invoked on stage i+1.
C7_RejectKillsSuccessor ==
  \A i \in Stages :
    (promise[i] = "rejected" /\ HasNext(i)) => KillRec("close", i, NextOf(i)) \in kills

\* C8: every kill the engine invokes targets stage i+1 of a stage i that has
\* closed with a failure, or stage 0 after a socket close with the error flag;
\* no process is signalled without such a kill.
C8_KillTargets ==
  /\ \A k \in kills :
       \/ /\ k.cause = "close"
          /\ k.target = k.from + 1
          /\ closed[k.from]
          /\ exitKind[k.from] \in {"code", "signal"}
       \/ /\ k.cause = "socket"
          /\ k.target = 0
          /\ socket = "closed_err"
  /\ \A j \in Stages : killPending[j] => Killed(j)

\* C8 witness: the middle stage of three failed, its successor was killed and
\* its predecessor was not.
C8_Witness ==
  /\ n = 3
  /\ closed[1] /\ exitKind[1] = "code"
  /\ Running(0) /\ ~Killed(0)
  /\ killPending[2]

\* C9: after stage i closes with failure every stage j > i is eventually
\* killed or closed, and after a socket close with the error flag every stage
\* is.
C9_FailureCascades ==
  /\ \A i \in 0 .. (MaxStages - 1) :
       (i \in Stages /\ closed[i] /\ exitKind[i] # "ok")
         ~> (\A j \in Stages : j > i => (closed[j] \/ Killed(j)))
  /\ (socket = "closed_err") ~> (\A j \in Stages : closed[j] \/ Killed(j))

\* C10: a socket close with the error flag invokes kill() on stage 0 and on no
\* other stage, a close without the flag invokes no kill, and run() on a
\* destination without a socket goes on without subscribing.
C10_SocketWatchdog ==
  [][ /\ (socket = "open" /\ socket' = "closed_err")
           => /\ kills' = kills \cup {KillRec("socket", 0, 0)}
              /\ \A j \in Stages : j # 0 => killPending'[j] = killPending[j]
      /\ (socket = "open" /\ socket' = "closed_ok")
           => /\ kills' = kills
              /\ killPending' = killPending
      /\ (pc = "init" /\ pc' # "init")
           => /\ pc' = "scheduled"
              /\ subscribed' = hasSocket
      /\ ~hasSocket => socket' = "open" ]_vars

\* C10 witness: the socket closed with the error flag while the first of
\* several stages was running, and that stage was signalled.
C10_Witness ==
  /\ n >= 2
  /\ socket = "closed_err"
  /\ KillRec("socket", 0, 0) \in kills
  /\ killPending[0]

\* C11: once the response socket has closed, every stage still open is
\* force-killed after the grace period, so that no process of the request
\* stays alive.  (run() takes the destination alone: the grace period that
\* model.js passes as a second argument arms no timer.)
C11_NoProcessOutlivesGrace ==
  (socket # "open") ~> (\A i \in 0 .. (MaxStages - 1) : i \in Stages => ~Running(i))

\* C12: the engine never ends the destination; all it does to it is write the
\* chunks of the last stdout, in order, and the 'end' of that stdout leaves
\* the destination open.
C12_SinkNeverEnded ==
  /\ ~sinkEnded
  /\ Len(sinkBody) <= Len(hashed)
  /\ sinkBody = SubSeq(hashed, 1, Len(sinkBody))

\* C12 witness: the last stdout has ended while piped into the destination,
\* after chunks were written to it.
C12_Witness ==
  /\ stdoutEnded
  /\ piped
  /\ sinkBody # <<>>
  /\ ~sinkEnded

\* C13: run() pipes nothing; the wiring is done by the callback of the next
\* turn.  When the destination has finished by then nothing is wired: no
\* stdout is piped to a successor or to the destination and no chunk reaches
\* the md5.  Otherwise each process but the last is piped to its successor,
\* and the last one, alone, to the destination (until the response closes).
C13_DeferredWiring ==
  /\ ~Started => (pipes = {} /\ ~piped /\ hashed = <<>> /\ sinkBody = <<>>)
  /\ (Started /\ sinkFinished) =>
       (pipes = {} /\ ~piped /\ hashed = <<>> /\ sinkBody = <<>>)
  /\ (Started /\ ~sinkFinished) =>
       /\ pipes = {<<i, i + 1>> : i \in 0 .. (n - 2)}
       /\ piped \/ socket # "open"

\* C13 witness: a run of several processes was aborted at the wiring turn and
\* events of its processes have been handled since.
C13_Witness ==
  /\ pc = "aborted"
  /\ n >= 2
  /\ \E i \in Stages : closed[i]

\* C14: endResponseClback is invoked exactly once per request: never twice,
\* with false when the pipeline settled with success and true when it settled
\* with failure, and every request gets its invocation in the end.
C14_EndCallbackExactlyOnce ==
  /\ [](/\ Len(endCalls) <= 1
        /\ join = "pending" => endCalls = <<>>
        /\ join = "fulfilled" => endCalls = <<FALSE>>
        /\ join = "rejected" => endCalls = <<TRUE>>)
  /\ <>(Len(endCalls) = 1)

\* C15: the temp directory of a multi-file request exists from before the
\* merge process is spawned until the end callback has returned; its removal
\* is started right after the callback returns, after success and after
\* failure alike, and a removal that completes without error leaves no
\* directory (a removal error is logged and the directory stays).
C15_TempDirRemovalStarted ==
  /\ ~multi => tmpDir = "none"
  /\ (multi /\ endCalls = <<>>) => tmpDir = "exists"
  /\ (multi /\ endCalls # <<>>) => tmpDir \in {"removing", "removed", "kept"}

\* C15 witness: a multi-file request failed, its end callback was called
\* with true and the directory has been removed.
C15_Witness ==
  /\ multi
  /\ endCalls = <<TRUE>>
  /\ tmpDir = "removed"

\* C15 as stated: once the end callback of a multi-file request has returned,
\* the temp directory is gone (at the latest when the removal has completed).
C15_TempDirGone ==
  (multi /\ endCalls # <<>>) ~> (tmpDir = "removed")

\* ------------------------------------------------- claims about process()
Outcomes == {outcomes[k] : k \in 1 .. Len(outcomes)}

Titles(spawned) == [k \in 1 .. Len(spawned) |-> spawned[k].title]

\* A query process() is meant to serve: files, a supported format or none,
\* a reference for VCF, files of one kind
Valid(q) ==
  /\ Len(q.files) >= 1
  /\ q.format \in SupportedFormats \cup {""}
  /\ q.format = "VCF" => q.reference # ""
  /\ ~Inconsistent(q.files)

\* C16: a call of process() that raises (no files, a format that is not
\* supported, VCF without a reference, .bam mixed with .cram) has spawned no
\* process.
C16_RaisesBeforeAnySpawn ==
  \A o \in Outcomes : o.did.raised # "" => o.did.spawned = <<>>

\* C17: process() leaves the query object as it was given, and a second call
\* with the same object spawns the same processes with the same argv.
C17_QueryUnchanged ==
  \A o \in Outcomes :
    /\ o.did.query = o.given
    /\ o.did.spawned = outcomes[1].did.spawned
    /\ o.did.raised = outcomes[1].did.raised

\* C18: for a valid query the processes spawned are [view] for one file and
\* [merge, markdup, view of '-' without regions] for several, with freebayes
\* appended exactly for VCF; merge alone is given a cwd.
C18_StageList ==
  \A o \in Outcomes :
    Valid(o.given) =>
      LET sp == o.did.spawned
          fb == IF o.given.format = "VCF" THEN <<"freebayes">> ELSE <<>>
      IN /\ o.did.raised = ""
         /\ o.did.ran
         /\ Len(sp) \in 1 .. 4
         /\ Len(o.given.files) = 1 =>
              /\ Titles(sp) = <<"samtools view">> \o fb
              /\ sp[1].argv[Len(sp[1].argv) - Len(IF Truthy(o.given.region)
                                                     THEN o.given.region.val
                                                     ELSE <<>>)]
                   = o.given.files[1]
         /\ Len(o.given.files) > 1 =>
              /\ Titles(sp) = <<"samtools merge", "bamstreamingmarkduplicates",
                                "samtools view (post-merge)">> \o fb
              /\ sp[3].argv = <<"view", "-h">> \o FormatFlag(o.given.format)
                                \o <<"-">>
         /\ \A k \in 1 .. Len(sp) :
              /\ sp[k].title = "freebayes" =>
                   (k = Len(sp) /\ o.given.format = "VCF")
              /\ sp[k].cwd # "" <=> sp[k].title = "samtools merge"
              /\ sp[k].title = "samtools merge" =>
                   (k = 1 /\ Len(o.given.files) > 1)

\* C18 witness: a VCF query for two files was served with four processes.
C18_Witness ==
  \E o \in Outcomes :
    /\ Valid(o.given)
    /\ Len(o.given.files) = 2
    /\ Len(o.did.spawned) = 4
    /\ o.did.spawned[4].title = "freebayes"

\* The output flag among the arguments of view
ViewFlag(argv) == IF argv[3] \in {"-b", "-C"} THEN argv[3] ELSE ""

\* C19: view is given -b for BAM and VCF, -C for CRAM, no flag for SAM, and
\* -b for a query without a format (the default format being BAM).
C19_OutputFlag ==
  \A o \in Outcomes :
    \A k \in 1 .. Len(o.did.spawned) :
      LET p == o.did.spawned[k] IN
        (p.cmd = "samtools" /\ p.argv[1] = "view") =>
          /\ o.given.format \in {"BAM", "VCF", ""} => ViewFlag(p.argv) = "-b"
          /\ o.given.format = "CRAM" => ViewFlag(p.argv) = "-C"
          /\ o.given.format = "SAM" => ViewFlag(p.argv) = ""

\* The query carries exactly one region
OneRegion(region) == Truthy(region) /\ Len(region.val) = 1

\* C20: freebayes is given -c -f <reference>, and -r <region> after them
\* exactly when the query carries one region; a VCF query without a reference
\* raises the missing-reference error.
C20_FreebayesArgv ==
  \A o \in Outcomes :
    /\ (o.given.format = "VCF" /\ o.given.reference = ""
          /\ o.given.files # <<>> /\ ~Inconsistent(o.given.files))
         => o.did.raised = "ReferenceError"
    /\ \A k \in 1 .. Len(o.did.spawned) :
         LET p == o.did.spawned[k] IN
           p.cmd = "freebayes" =>
             p.argv = <<"-c", "-f", o.given.reference>>
                      \o (IF OneRegion(o.given.region)
                            THEN <<"-r", o.given.region.val[1]>> ELSE <<>>)

\* C21: with two pipelines running at once, a step about one of them (a
\* process exiting or failing, an 'error', its socket closing, its join
\* settling) leaves the other's processes unkilled and its promises, result,
\* checksum input and callbacks as they were.
C21_FailureIsolation ==
  [][\A o \in Reqs : o # lastReq' => reqs'[o] = reqs[o]]_vars

\* C21 witness: A failed, with a kill of a successor and its failure
\* callback, while B succeeded with the checksum of its own output.
C21_Witness ==
  /\ reqs # <<>>
  /\ reqs["A"].calls = <<"failure">>
  /\ reqs["A"].result.truncated
  /\ \E i \in DOMAIN reqs["A"].exit : reqs["A"].exit[i] = "signal"
  /\ reqs["B"].calls = <<"success">>
  /\ reqs["B"].hashed # <<>>
  /\ reqs["B"].result = [truncated |-> FALSE, checksum |-> Md5Hex(reqs["B"].hashed)]

\* ------------------------------------------- claims about the trailer module
Declared(r) == Includes(r.trailer, "data-truncated")

C23_SetDataTruncationChecks ==
  lastCall.op = "setDataTruncation" =>
    /\ ~lastCall.given =>
         /\ lastCall.thrown = "HTTP response object is required"
         /\ ErrorType(lastCall.thrown) = "ReferenceError"
    /\ (lastCall.given /\ lastCall.args.truncated.type # "boolean") =>
         /\ lastCall.thrown = "boolean flag indicating data truncation is required"
         /\ ErrorType(lastCall.thrown) = "ReferenceError"
    /\ (lastCall.given /\ lastCall.args.truncated.type = "boolean"
        /\ ~Declared(lastCall.found)) =>
         /\ lastCall.thrown =
              "Cannot set data truncation trailer because it has not been declared"
         /\ ErrorType(lastCall.thrown) = "Error"
    /\ lastCall.thrown # "" => response = lastCall.found

\* C23 witness: a call with a flag that is not a boolean, on a response
\* without a declaration: the flag is what it raised for.
C23_Witness ==
  /\ lastCall.op = "setDataTruncation"
  /\ lastCall.given
  /\ lastCall.args.truncated.type = "number"
  /\ ~Declared(lastCall.found)
  /\ lastCall.thrown # ""

C25_TrailerPair ==
  /\ (lastCall.op = "setDataTruncation" /\ lastCall.thrown = "") =>
       response.pending =
         <<"data-truncated",
           IF lastCall.args.truncated.b THEN "true" ELSE "false",
           "checksum",
           IF lastCall.args.checksum.type = "string"
             THEN lastCall.args.checksum.s ELSE "null">>
  /\ (response.finished /\ response.chunked
      /\ lastSet.truncated.type = "boolean") =>
       response.rawTrailers =
         <<"data-truncated",
           IF lastSet.truncated.b THEN "true" ELSE "false",
           "checksum",
           IF lastSet.checksum.type = "string" THEN lastSet.checksum.s ELSE "null">>

\* C25 witness: a chunked response was ended after setDataTruncation(response,
\* true, <a number>), and the client got the checksum "null".
C25_Witness ==
  /\ response.finished
  /\ response.chunked
  /\ response.body > 0
  /\ lastSet.truncated = [type |-> "boolean", b |-> TRUE]
  /\ lastSet.checksum.type = "number"
  /\ response.rawTrailers = <<"data-truncated", "true", "checksum", "null">>

\* C26: declare returns only on a response without a body byte written, and
\* setDataTruncation returns only on a response with a declaration that has
\* not been ended.
C26_DeclareBeforeWriteSetBeforeEnd ==
  /\ (lastCall.op = "declare" /\ lastCall.thrown = "") =>
       lastCall.found.body = 0
  /\ (lastCall.op = "setDataTruncation" /\ lastCall.thrown = "") =>
       (Declared(lastCall.found) /\ ~lastCall.found.finished)

\* C27: on a response whose Transfer-Encoding header was removed, declare
\* (before the body) and setDataTruncation (after declare) return as they do
\* otherwise, the body written stays written, and the response ends without
\* any trailer.
C27_NoTrailersWithoutChunking ==
  /\ (lastCall.found.teRemoved /\ lastCall.given) =>
       /\ (lastCall.op = "declare" /\ ~lastCall.found.headersSent) =>
            lastCall.thrown = ""
       /\ (lastCall.op = "setDataTruncation"
           /\ lastCall.args.truncated.type = "boolean"
           /\ Declared(lastCall.found)) => lastCall.thrown = ""
       /\ response.body = lastCall.found.body
  /\ response.teRemoved => (~response.chunked /\ response.rawTrailers = <<>>)

\* C27 witness: Transfer-Encoding removed, trailer declared, body written,
\* truncation set, response ended: no trailer went out.
C27_Witness ==
  /\ response.teRemoved
  /\ response.finished
  /\ response.body > 0
  /\ Declared(response)
  /\ response.pending # <<>>
  /\ response.rawTrailers = <<>>

\* C30: the digest is finalized only in the success path: while the run has
\* not succeeded no digest has been taken, so a run that ends in failure never
\* finalizes the accumulator, and the end of the last stdout does not either.
C30_DigestOnlyOnSuccess == join # "fulfilled" => hashDigest = NULL

\* the payloads a resource stands for, in the order of its uris; p is the
\* path of the resource
RECURSIVE Payloads(_, _)
Payloads(u, p) ==
  IF u.kind \in {"data", "http"} THEN <<p>>
  ELSE IF u.kind = "json"
       THEN LET RECURSIVE From(_)
                From(k) == IF k > Len(u.uris) THEN <<>>
                           ELSE Payloads(u.uris[k], p \o <<k>>) \o From(k + 1)
            IN From(1)
       ELSE <<>>

IsPrefix(a, b) == Len(a) <= Len(b) /\ a = SubSeq(b, 1, Len(a))

Comparable(p, q) == IsPrefix(p, q) \/ IsPrefix(q, p)

\* C28: the uris of a document are processed one at a time and in the
\* document's order: two tasks are in progress together only when one is the
\* task of a document and the other a task of its queue, a task has started
\* only when the tasks pushed before it have called back, what has been
\* written is a prefix of the payloads in the document's order, and a client
\* that exits with 0 has written all of them.
C28_SequentialInOrder ==
  task # <<>> =>
    /\ \A p, q \in DOMAIN task :
         (InProgress(task, p) /\ InProgress(task, q)) => Comparable(p, q)
    /\ \A p, q \in DOMAIN task :
         (p # <<>> /\ q \in Siblings(p) /\ q[Len(q)] < p[Len(p)]
          /\ task[p] # "queued") => task[q] = "done"
    /\ IsPrefix(output, Payloads(url, <<>>))
    /\ exitCode = "0" => output = Payloads(url, <<>>)

\* C29: an error while requesting or receiving, and with --accept-trailers a
\* response marked truncated, makes the client exit with 1; the client exits
\* with 0 only when every uri has been processed and none had such an error.
C29_ExitCodes ==
  /\ failed # {} => exitCode = "1"
  /\ exitCode = "0" =>
       /\ failed = {}
       /\ \A p \in DOMAIN task : task[p] = "done"

\* C31: the client's output is ended only when the whole walk has finished:
\* while the output is ended no task is still queued or in progress, so no
\* uri is left whose payload would have to be written to the ended output.
C31_OutputEndedLast ==
  outputEnded => \A p \in DOMAIN task : task[p] = "done"

FreshResult == [truncated |-> FALSE, checksum |-> NULL]

ResultOnLifecycle ==
  /\ join = "pending" => result = FreshResult
  /\ result.checksum # NULL => ~result.truncated
  /\ result.truncated => result.checksum = NULL

\* C32: _result is {truncated: false, checksum: null} from construction until
\* Promise.all settles, it changes at most once (only a fresh record is ever
\* written to, and what is written differs from it), and in every state a
\* checksum excludes truncated and truncated excludes a checksum.
C32_ResultLifecycle ==
  /\ ResultOnLifecycle
  /\ [][/\ result' # result => (join = "pending" /\ result = FreshResult)
        /\ ResultOnLifecycle']_vars

\* C32 witness: a run that hashed data and failed: the record has moved to
\* {truncated: true, checksum: null}.
C32_Witness ==
  /\ join = "rejected"
  /\ hashed # <<>>
  /\ result = [truncated |-> TRUE, checksum |-> NULL]

\* C33: a call of process() that raises after it made a temp directory or
\* spawned processes has removed the directory and killed every process it
\* spawned.
C33_CleanupOnRaise ==
  \A o \in Outcomes :
    o.did.raised # "" =>
      /\ o.did.mkdir => o.did.removed
      /\ \A k \in 1 .. Len(o.did.spawned) : k \in o.did.killed

\* what the claim lists as input that run() refuses
Refused(args) ==
  \/ args.destination = "undefined"
  \/ args.processes.type # "array"
  \/ args.processes.items = <<>>
  \/ \E k \in 1 .. Len(args.processes.items) :
       args.processes.items[k] \in {"undefined", "object"}
  \/ args.onSuccessClbk # "function"
  \/ args.onFailureClbk # "function"

\* C34: making the pipeline object never raises; run() raises on every input
\* the list refuses; and a run() that has raised has attached no listener to
\* a stage or to the socket, has scheduled no wiring, and no callback is
\* invoked afterwards.
C34_ValidatesBeforeSideEffects ==
  /\ runState.built = ""
  /\ (runState.ran /\ Refused(runArgs)) => runState.raised # ""
  /\ runState.raised # "" =>
       /\ runState.listeners = {}
       /\ ~runState.socketListener
       /\ ~runState.scheduled
       /\ ~runState.wired
       /\ runState.callbacks = <<>>

\* C35: requestWorker invokes the callback of a task exactly once on every
\* path: no callback is ever invoked twice, and a task that has ended, with
\* or without an error, has had its callback invoked once; so has the task of
\* a document when a task of its queue has failed.
C35_CallbackOncePerTask ==
  \A p \in DOMAIN task :
    /\ Len(called[p]) <= 1
    /\ task[p] \in {"done", "failed"} => Len(called[p]) = 1
    /\ (\E q \in failed : IsPrefix(p, q)) => Len(called[p]) = 1

\* C35 witness: with --accept-trailers, a data response listed in a document
\* ended with a trailer marking it as truncated: the callbacks of its task
\* and of the document's were invoked with the error, once each.
C35_Witness ==
  /\ acceptTrailers
  /\ \E p \in DOMAIN task :
       /\ p # <<>>
       /\ At(url, p).kind = "http"
       /\ Written(p)
       /\ called[p] = <<"Incomplete or truncated data">>
       /\ called[<<>>] = <<"Incomplete or truncated data">>
       /\ exitCode = "1"

====
